---- MODULE Spec2Model ----
(***************************************************************************)
(* Model of timetracker.objects.TrackingFile (lysogeny/tt).                *)
(*                                                                         *)
(* Files are sequences of characters.  The csv writer, the csv reader and  *)
(* csv.Sniffer are modelled on those characters, so that what write()      *)
(* puts on disk and what read() later makes of it are computed             *)
(* independently of each other.                                            *)
(***************************************************************************)
EXTENDS Integers, Sequences, FiniteSets, TLC

(***************************************************************************)
(* Bounds of the model.                                                    *)
(***************************************************************************)
MaxData == 2          \* entries held in data when append is called, at most
MaxFileLen == 14      \* characters of the tracking file at most
MaxClock == 3         \* the clock stops advancing here

(***************************************************************************)
(* Characters and text.                                                    *)
(***************************************************************************)
TAB == "\t"
LF == "\n"
CR == "\r"
QUOTE == "\""
COMMA == ","

Digits == <<"0", "1", "2", "3", "4", "5", "6", "7", "8", "9">>

IsDigit(c) == \E i \in 1..10 : Digits[i] = c

DigitValue(c) == (CHOOSE i \in 1..10 : Digits[i] = c) - 1

\* \w of the regular expressions: letters, digits, underscore
WordChars == {Digits[i] : i \in 1..10} \cup {"a", "b", "x", "_"}

\* what str.strip() and int() strip
Whitespace == {TAB, LF, CR, " "}

\* code points, for the orderings that compare characters
CharCode(c) ==
  CASE c = TAB -> 9
    [] c = LF -> 10
    [] c = CR -> 13
    [] c = " " -> 32
    [] c = QUOTE -> 34
    [] c = "+" -> 43
    [] c = COMMA -> 44
    [] c = "-" -> 45
    [] c = ":" -> 58
    [] c = ";" -> 59
    [] c = "_" -> 95
    [] c = "a" -> 97
    [] c = "b" -> 98
    [] c = "x" -> 120
    [] OTHER -> 48 + DigitValue(c)

Min(a, b) == IF a <= b THEN a ELSE b

Contains(s, c) == \E i \in 1..Len(s) : s[i] = c

\* the position of the first c in s, for an s that contains c
Find(s, c) == CHOOSE i \in 1..Len(s) : s[i] = c /\ \A h \in 1..(i - 1) : s[h] # c

\* str.count(c) for a single character c
Count(c, s) == Cardinality({i \in 1..Len(s) : s[i] = c})

\* str(n) for an integer n
RECURSIVE str(_)
str(n) ==
  IF n < 0 THEN <<"-">> \o str(-n)
  ELSE IF n < 10 THEN <<Digits[n + 1]>> ELSE str(n \div 10) \o <<Digits[(n % 10) + 1]>>

RECURSIVE DigitsValue(_, _)
DigitsValue(s, acc) ==
  IF s = <<>> THEN acc ELSE DigitsValue(Tail(s), 10 * acc + DigitValue(Head(s)))

RECURSIVE lstrip(_)
lstrip(s) ==
  IF s # <<>> /\ Head(s) \in Whitespace THEN lstrip(Tail(s)) ELSE s

RECURSIVE rstrip(_)
rstrip(s) ==
  IF s # <<>> /\ s[Len(s)] \in Whitespace THEN rstrip(SubSeq(s, 1, Len(s) - 1)) ELSE s

strip(s) == rstrip(lstrip(s))

\* int(text): surrounding whitespace is ignored, the rest must be digits
IntParseable(s) ==
  LET AllDigits(t) == t # <<>> /\ \A i \in 1..Len(t) : IsDigit(t[i]) IN AllDigits(strip(s))

int(s) == DigitsValue(strip(s), 0)

(***************************************************************************)
(* Text-mode files: open(name, 'r') reads with universal newlines,         *)
(* open(name, 'w' or 'a') writes "\n" as os.linesep.                       *)
(***************************************************************************)
os_linesep == <<LF>>

\* what a text-mode read returns for the stored characters: "\r\n" and "\r" as "\n"
RECURSIVE TextRead(_)
TextRead(s) ==
  LET From(i) ==
        SubSeq(s, 1, i - 1) \o <<LF>>
        \o TextRead(SubSeq(s, IF i < Len(s) /\ s[i + 1] = LF THEN i + 2 ELSE i + 1, Len(s)))
  IN IF ~Contains(s, CR) THEN s ELSE From(Find(s, CR))

\* what a text-mode write stores for the written characters: "\n" as os.linesep
RECURSIVE TextWrite(_)
TextWrite(s) ==
  LET From(i) == SubSeq(s, 1, i - 1) \o os_linesep \o TextWrite(SubSeq(s, i + 1, Len(s)))
  IN IF ~Contains(s, LF) THEN s ELSE From(Find(s, LF))

\* text.split("\n")
RECURSIVE split_lf(_)
split_lf(s) ==
  LET From(i) == <<SubSeq(s, 1, i - 1)>> \o split_lf(SubSeq(s, i + 1, Len(s)))
  IN IF ~Contains(s, LF) THEN <<s>> ELSE From(Find(s, LF))

(***************************************************************************)
(* Dialects.                                                               *)
(***************************************************************************)
\* self.dialect = None
None == [delimiter |-> "", quotechar |-> "", doublequote |-> FALSE,
         skipinitialspace |-> FALSE, lineterminator |-> <<>>]

\* class Dialect(csv.Dialect)
Dialect == [delimiter |-> TAB, quotechar |-> QUOTE, doublequote |-> TRUE,
            skipinitialspace |-> FALSE, lineterminator |-> os_linesep]

(***************************************************************************)
(* Entries.  A field is an integer or a text; an element of data is a row  *)
(* of fields or, after an indexed assignment, a value that is no sequence. *)
(***************************************************************************)
IntField(n) == [isint |-> TRUE, n |-> n, s |-> <<>>]
StrField(s) == [isint |-> FALSE, n |-> 0, s |-> s]
Row(fields) == [iterable |-> TRUE, fields |-> fields]
Scalar == [iterable |-> FALSE, fields |-> <<>>]

\* [timestamp, activity]
Entry(timestamp, activity) == Row(<<IntField(timestamp), StrField(activity)>>)

(***************************************************************************)
(* csv.writer with quoting = QUOTE_MINIMAL and no escapechar.              *)
(***************************************************************************)
FieldText(f) == IF f.isint THEN str(f.n) ELSE f.s

\* a character that makes the writer quote the field
Special(c, d) == c = d.delimiter \/ c = d.quotechar \/ Contains(d.lineterminator, c)

\* the field cannot be written: a quotechar in it needs an escapechar
FieldUnwritable(s, d) == Contains(s, d.quotechar) /\ ~d.doublequote

RECURSIVE DoubleQuotes(_, _)
DoubleQuotes(s, d) ==
  IF s = <<>> THEN <<>>
  ELSE (IF Head(s) = d.quotechar THEN <<Head(s), Head(s)>> ELSE <<Head(s)>>)
       \o DoubleQuotes(Tail(s), d)

WriteField(s, d, only) ==
  IF (\E i \in 1..Len(s) : Special(s[i], d)) \/ (only /\ s = <<>>)
  THEN <<d.quotechar>> \o DoubleQuotes(s, d) \o <<d.quotechar>>
  ELSE s

RECURSIVE JoinFields(_, _, _)
JoinFields(fields, d, only) ==
  IF fields = <<>> THEN <<>>
  ELSE WriteField(FieldText(Head(fields)), d, only)
       \o (IF Len(fields) > 1 THEN <<d.delimiter>> ELSE <<>>)
       \o JoinFields(Tail(fields), d, only)

\* writer.writerow(row) raises
RowUnwritable(row, d) ==
  \/ ~row.iterable
  \/ \E i \in 1..Len(row.fields) : FieldUnwritable(FieldText(row.fields[i]), d)

\* the characters writer.writerow(row) hands to the file
writerow(row, d) ==
  JoinFields(row.fields, d, Len(row.fields) = 1) \o d.lineterminator

\* writer.writerows(rows) raises
RowsUnwritable(rows, d) == \E i \in 1..Len(rows) : RowUnwritable(rows[i], d)

\* the characters writer.writerows(rows) hands to the file before it returns or raises
RECURSIVE writerows(_, _)
writerows(rows, d) ==
  IF rows = <<>> \/ RowUnwritable(Head(rows), d) THEN <<>>
  ELSE writerow(Head(rows), d) \o writerows(Tail(rows), d)

(***************************************************************************)
(* csv.reader (not strict) over the characters a text-mode read yields.    *)
(* A parser state p holds the state st of the reader, the field being     *)
(* collected, the fields of the record being collected and the records     *)
(* read so far.  Every field read is a text.                               *)
(***************************************************************************)
ParserStart == [st |-> "START_RECORD", field |-> <<>>, fields |-> <<>>, records |-> <<>>]

\* the reader takes the character c in parser state p
ParseChar(p, c, d) ==
  LET saved == Append(p.fields, StrField(p.field))
      Skip(st) == [p EXCEPT !.st = st]
      Add(st) == [p EXCEPT !.st = st, !.field = Append(p.field, c)]
      NextField == [p EXCEPT !.st = "START_FIELD", !.field = <<>>, !.fields = saved]
      EndRecord(fields) == [ParserStart EXCEPT !.records = Append(p.records, Row(fields))]
  IN CASE p.st = "START_RECORD" /\ c = LF -> EndRecord(<<>>)
       [] p.st \in {"START_RECORD", "START_FIELD"} /\ c # LF ->
            IF c = d.quotechar THEN Skip("IN_QUOTED_FIELD")
            ELSE IF c = " " /\ d.skipinitialspace THEN Skip("START_FIELD")
            ELSE IF c = d.delimiter THEN NextField
            ELSE Add("IN_FIELD")
       [] p.st \in {"START_FIELD", "IN_FIELD", "QUOTE_IN_QUOTED_FIELD"} /\ c = LF ->
            EndRecord(saved)
       [] p.st = "IN_FIELD" /\ c # LF ->
            IF c = d.delimiter THEN NextField ELSE Add("IN_FIELD")
       [] p.st = "IN_QUOTED_FIELD" ->
            IF c = d.quotechar
            THEN Skip(IF d.doublequote THEN "QUOTE_IN_QUOTED_FIELD" ELSE "IN_FIELD")
            ELSE Add("IN_QUOTED_FIELD")
       [] p.st = "QUOTE_IN_QUOTED_FIELD" /\ c # LF ->
            IF c = d.quotechar THEN Add("IN_QUOTED_FIELD")
            ELSE IF c = d.delimiter THEN NextField
            ELSE Add("IN_FIELD")

ReaderStates ==
  {"START_RECORD", "START_FIELD", "IN_FIELD", "IN_QUOTED_FIELD", "QUOTE_IN_QUOTED_FIELD"}

\* the reader takes the characters s[lo..hi] in parser state p, one after the
\* other: those of the first half, and from the state they leave (which is
\* looked at, so that it is there before the second half starts) those of the
\* second half
RECURSIVE ParseChars(_, _, _, _, _)
ParseChars(s, d, lo, hi, p) ==
  LET Second(first) ==
        IF first.st \in ReaderStates
        THEN ParseChars(s, d, ((lo + hi) \div 2) + 1, hi, first)
        ELSE first
  IN IF lo > hi THEN p
     ELSE IF lo = hi THEN ParseChar(p, s[lo], d)
     ELSE Second(ParseChars(s, d, lo, (lo + hi) \div 2, p))

\* list(csv.reader(data_file, dialect=d)) for a file holding the characters
\* content; when the file is exhausted an unfinished record is returned as it is
reader(content, d) ==
  LET Exhausted(p) ==
        IF p.st = "START_RECORD" THEN p.records
        ELSE Append(p.records, Row(Append(p.fields, StrField(p.field))))
      Parsed(text) == Exhausted(ParseChars(text, d, 1, Len(text), ParserStart))
  IN Parsed(TextRead(content))

(***************************************************************************)
(* csv.Sniffer().sniff(sample).  A result with delimiter "" stands for     *)
(* the csv.Error "Could not determine delimiter".                          *)
(***************************************************************************)
SampleSize == 1024

\* file.read(1024) of a text-mode file
Sample(content) ==
  LET text == TextRead(content) IN SubSeq(text, 1, Min(Len(text), SampleSize))

preferred == <<COMMA, TAB, ";", " ", ":">>

QuoteChars == {QUOTE, "'"}

\* [^\w\n"\']
IsDelimClass(c) == c \notin WordChars /\ c # LF /\ c \notin QuoteChars

\* ^ under re.MULTILINE
AtLineStart(s, p) == p = 1 \/ s[p - 1] = LF

\* $ under re.MULTILINE, tried after the character at position p
AtLineEnd(s, p) == p = Len(s) \/ s[p + 1] = LF

NoMatch == [ok |-> FALSE, end |-> 0, delim |-> "", space |-> FALSE]

\* the closing quote of a lazy .*? that opened at q0, for pattern k, or 0
Closing(k, s, q0, dl) ==
  LET Fits(j) ==
        /\ s[j] = s[q0]
        /\ CASE k = 1 -> j < Len(s) /\ s[j + 1] = dl
             [] k = 2 -> j < Len(s) /\ IsDelimClass(s[j + 1])
             [] OTHER -> AtLineEnd(s, j)
      js == {j \in (q0 + 1)..Len(s) : Fits(j)}
  IN IF js = {} THEN 0 ELSE CHOOSE j \in js : \A i \in js : j <= i

\* patterns 1 and 3 start with a delimiter, an optional space and a quote
MatchDelimFirst(k, s, p) ==
  LET sp == p + 2 <= Len(s) /\ s[p + 1] = " " /\ s[p + 2] \in QuoteChars
      q0 == IF sp THEN p + 2 ELSE p + 1
      Closed(j) ==
        IF IsDelimClass(s[p]) /\ j > 0
        THEN [ok |-> TRUE, end |-> IF k = 1 THEN j + 1 ELSE j, delim |-> s[p], space |-> sp]
        ELSE NoMatch
  IN Closed(IF q0 <= Len(s) /\ s[q0] \in QuoteChars THEN Closing(k, s, q0, s[p]) ELSE 0)

\* patterns 2 and 4 start at a line start (or with the newline before it)
MatchLineFirst(k, s, p) ==
  LET q0 == IF AtLineStart(s, p) /\ s[p] \in QuoteChars THEN p
            ELSE IF s[p] = LF /\ p < Len(s) /\ s[p + 1] \in QuoteChars THEN p + 1
            ELSE 0
      Closed(j) ==
        IF j = 0 THEN NoMatch
        ELSE IF k = 2
        THEN IF j + 2 <= Len(s) /\ s[j + 2] = " "
             THEN [ok |-> TRUE, end |-> j + 2, delim |-> s[j + 1], space |-> TRUE]
             ELSE [ok |-> TRUE, end |-> j + 1, delim |-> s[j + 1], space |-> FALSE]
        ELSE [ok |-> TRUE, end |-> j, delim |-> "", space |-> FALSE]
  IN Closed(IF q0 > 0 THEN Closing(k, s, q0, "") ELSE 0)

MatchAt(k, s, p) ==
  IF k \in {1, 3} THEN MatchDelimFirst(k, s, p) ELSE MatchLineFirst(k, s, p)

\* regexp.findall(data) for pattern k, scanning from position p
RECURSIVE findall(_, _, _)
findall(k, s, p) ==
  LET After(m) == <<m>> \o findall(k, s, m.end + 1)
      Scan(hits) ==
        IF hits = {} THEN <<>>
        ELSE After(MatchAt(k, s, CHOOSE q \in hits : \A h \in hits : q <= h))
  IN Scan({q \in p..Len(s) : MatchAt(k, s, q).ok})

\* the matches of the first of the four patterns that matches at all
QuoteMatches(s) ==
  LET FirstFound(found) ==
        LET hit == {k \in 1..Len(found) : found[k] # <<>>}
        IN IF hit = {} THEN <<>> ELSE found[CHOOSE k \in hit : \A h \in hit : k <= h]
  IN IF ~\E i \in 1..Len(s) : s[i] \in QuoteChars THEN <<>>
     ELSE FirstFound(<<findall(1, s, 1), findall(2, s, 1), findall(3, s, 1), findall(4, s, 1)>>)

\* max(delims, key=delims.get): the most frequent, the first found among equals
MostFrequentDelim(ms) ==
  LET N(c) == Cardinality({i \in 1..Len(ms) : ms[i].delim = c})
      First(c) == CHOOSE i \in 1..Len(ms) : ms[i].delim = c /\ \A h \in 1..(i - 1) : ms[h].delim # c
      cs == {ms[i].delim : i \in 1..Len(ms)} \ {""}
  IN IF cs = {} THEN ""
     ELSE CHOOSE c \in cs : \A o \in cs : N(c) > N(o) \/ (N(c) = N(o) /\ First(c) <= First(o))

\* dq_regexp.search(data): three quotes between two delimiters
DoubleQuoted(s, dl, q) ==
  LET Plain(lo, hi) == \A h \in lo..hi : s[h] # dl /\ s[h] # LF
      NonWord(lo, hi) == \A h \in lo..hi : s[h] \notin WordChars
      Opens(i) == \E a \in 1..i : /\ (dl = "" \/ AtLineStart(s, a) \/ s[a - 1] = dl)
                                  /\ NonWord(a, i - 1)
      Closes(k) == \E e \in k..Len(s) : /\ NonWord(k + 1, e)
                                        /\ (dl = "" \/ AtLineEnd(s, e) \/ s[e + 1] = dl)
  IN \E i, j, k \in 1..Len(s) :
        /\ i < j /\ j < k
        /\ s[i] = q /\ s[j] = q /\ s[k] = q
        /\ Plain(i + 1, j - 1) /\ Plain(j + 1, k - 1)
        /\ Opens(i) /\ Closes(k)

\* Sniffer._guess_quote_and_delimiter(data, None)
guess_quote_and_delimiter(s) ==
  LET Guess(ms) ==
        LET dl == MostFrequentDelim(ms)
            spaces == Cardinality({i \in 1..Len(ms) : ms[i].space})
            hits == Cardinality({i \in 1..Len(ms) : ms[i].delim = dl})
        IN IF ms = <<>>
           THEN [delimiter |-> "", quotechar |-> "", doublequote |-> FALSE,
                 skipinitialspace |-> FALSE]
           ELSE [delimiter |-> dl, quotechar |-> QUOTE,
                 doublequote |-> DoubleQuoted(s, dl, QUOTE),
                 skipinitialspace |-> dl # "" /\ hits = spaces]
  IN Guess(QuoteMatches(s))

\* the non-empty lines of the sample
RECURSIVE NonEmpty(_)
NonEmpty(lines) ==
  IF lines = <<>> THEN <<>>
  ELSE (IF Head(lines) = <<>> THEN <<>> ELSE <<Head(lines)>>) \o NonEmpty(Tail(lines))

\* occurrences of the two characters c, " " in s
RECURSIVE CountBeforeSpace(_, _)
CountBeforeSpace(c, s) ==
  LET From(i) == 1 + CountBeforeSpace(c, SubSeq(s, i + 2, Len(s)))
      Scan(hits) ==
        IF hits = {} THEN 0 ELSE From(CHOOSE i \in hits : \A h \in hits : i <= h)
  IN Scan({i \in 1..(Len(s) - 1) : s[i] = c /\ s[i + 1] = " "})

\* Sniffer._guess_delimiter(data, None), for a sample of at most ten lines (one
\* chunk).  Mode(fr) is the mode of the per-line frequencies fr of a character,
\* the first seen among equals, with its count less the count of all the other
\* frequencies.  The loop that lowers the consistency from 1.0 to 0.9 until a
\* character passes stops at the highest percentage that any character reaches.
guess_delimiter(s) ==
  LET Mode(fr) ==
        LET fs == {fr[i] : i \in 1..Len(fr)}
            Meta(f) == Cardinality({i \in 1..Len(fr) : fr[i] = f})
            FirstSeen(f) == CHOOSE i \in 1..Len(fr) : fr[i] = f /\ \A h \in 1..(i - 1) : fr[h] # f
            Top(m) == [freq |-> m, count |-> Meta(m) - (Len(fr) - Meta(m))]
        IN Top(CHOOSE f \in fs : \A g \in fs :
                 \/ Meta(f) > Meta(g)
                 \/ Meta(f) = Meta(g) /\ FirstSeen(f) <= FirstSeen(g))
      Consistent(lines, chars, modes) ==
        LET total == Len(lines)
            Passes(c, level) ==
              modes[c].freq > 0 /\ modes[c].count > 0 /\ 100 * modes[c].count >= level * total
            levels == {l \in 90..100 : \E c \in chars : Passes(c, l)}
            Delims(top) == IF total = 0 \/ levels = {} THEN {} ELSE {c \in chars : Passes(c, top)}
            Above(c, o) ==
              \/ modes[c].freq > modes[o].freq
              \/ modes[c].freq = modes[o].freq /\ modes[c].count > modes[o].count
              \/ /\ modes[c].freq = modes[o].freq /\ modes[c].count = modes[o].count
                 /\ CharCode(c) >= CharCode(o)
            Pick(delims, prefs) ==
              IF delims = {} THEN ""
              ELSE IF Cardinality(delims) = 1 THEN CHOOSE c \in delims : TRUE
              ELSE IF prefs # {} THEN preferred[CHOOSE i \in prefs : \A h \in prefs : i <= h]
              ELSE CHOOSE c \in delims : \A o \in delims : Above(c, o)
            Preferred(delims) == Pick(delims, {i \in 1..Len(preferred) : preferred[i] \in delims})
            Guess(dl) ==
              [delimiter |-> dl,
               skipinitialspace |-> dl # "" /\ Count(dl, lines[1]) = CountBeforeSpace(dl, lines[1])]
        IN Guess(Preferred(Delims(CHOOSE l \in levels : \A m \in levels : l >= m)))
      Lines(lines, chars) ==
        Consistent(lines, chars,
                   [c \in chars |-> Mode([i \in 1..Len(lines) |-> Count(c, lines[i])])])
  IN Lines(NonEmpty(split_lf(s)), {s[i] : i \in 1..Len(s)} \ {LF})

\* csv.Sniffer().sniff(sample); the class it returns has lineterminator "\r\n"
sniff(s) ==
  LET Sniffed(q) ==
        LET g == IF q.delimiter # "" THEN q ELSE guess_delimiter(s)
        IN [delimiter |-> g.delimiter,
            quotechar |-> QUOTE,
            doublequote |-> q.doublequote,
            skipinitialspace |-> g.skipinitialspace,
            lineterminator |-> <<CR, LF>>]
  IN Sniffed(guess_quote_and_delimiter(s))

\* sniff raises csv.Error
SniffFails(s) == sniff(s).delimiter = ""

(***************************************************************************)
(* Human-readable timestamps: datetime.fromtimestamp(t, tz).strftime(fmt)  *)
(* and datetime.strptime(text, fmt).timestamp().  A timezone is a fixed    *)
(* offset of whole hours east of UTC; the timestamps of the model fall on  *)
(* 1970-01-01 in each of them.                                             *)
(***************************************************************************)
DEFAULT_HUMAN_DATETIME == "%Y-%m-%d %H:%M:%S %z"
ISO_DATETIME == "%Y-%m-%d %H:%M:%S"

utc == 0

TwoDigits(n) == <<Digits[(n \div 10) + 1], Digits[(n % 10) + 1]>>

EpochDay == <<"1", "9", "7", "0", "-", "0", "1", "-", "0", "1">>
DayBefore == <<"1", "9", "6", "9", "-", "1", "2", "-", "3", "1">>

\* datetime.fromtimestamp(t, tz=tz).strftime(ts_format)
strftime(t, ts_format, tz) ==
  LET wall == t + 3600 * tz
      secs == IF wall < 0 THEN wall + 86400 ELSE wall
      clock == (IF wall < 0 THEN DayBefore ELSE EpochDay) \o <<" ">>
               \o TwoDigits(secs \div 3600) \o <<":">>
               \o TwoDigits((secs % 3600) \div 60) \o <<":">>
               \o TwoDigits(secs % 60)
  IN IF ts_format = DEFAULT_HUMAN_DATETIME
     THEN clock \o <<" ", "+">> \o TwoDigits(tz) \o <<"0", "0">>
     ELSE clock

\* the template a text must fit for strptime(text, ts_format) not to raise
FitsFormat(text, ts_format) ==
  LET n == IF ts_format = DEFAULT_HUMAN_DATETIME THEN 25 ELSE 19
      NumberAt(i) == IsDigit(text[i]) /\ IsDigit(text[i + 1])
  IN /\ Len(text) = n
     /\ SubSeq(text, 1, 10) \in {EpochDay, DayBefore}
     /\ text[11] = " "
     /\ NumberAt(12) /\ text[14] = ":" /\ NumberAt(15) /\ text[17] = ":" /\ NumberAt(18)
     /\ DigitsValue(SubSeq(text, 12, 13), 0) < 24
     /\ DigitsValue(SubSeq(text, 15, 16), 0) < 60
     /\ DigitsValue(SubSeq(text, 18, 19), 0) < 60
     /\ n = 25 => /\ text[20] = " " /\ text[21] = "+"
                  /\ NumberAt(22) /\ text[24] = "0" /\ text[25] = "0"

\* int(datetime.strptime(text, ts_format).timestamp()): a text with an offset is
\* an aware datetime; one without is a naive datetime, which timestamp() reads
\* as local time of the host, localtz hours east of UTC
strptime_timestamp(text, ts_format, localtz) ==
  LET wall == 3600 * DigitsValue(SubSeq(text, 12, 13), 0)
              + 60 * DigitsValue(SubSeq(text, 15, 16), 0)
              + DigitsValue(SubSeq(text, 18, 19), 0)
              - (IF SubSeq(text, 1, 10) = DayBefore THEN 86400 ELSE 0)
  IN IF ts_format = DEFAULT_HUMAN_DATETIME
     THEN wall - 3600 * DigitsValue(SubSeq(text, 22, 23), 0)
     ELSE wall - 3600 * localtz

(***************************************************************************)
(* The state: one TrackingFile object, the files it works on, the clock.   *)
(***************************************************************************)
VARIABLES
  files,              \* the characters stored under each path, or NoFile
  data,               \* self.data
  dialect,            \* self.dialect
  loaded,             \* self.loaded
  time,               \* time.time(), in whole seconds
  timestamp_default,  \* the default of append's timestamp parameter
  scope,              \* "body" inside a with statement on the object
  last                \* the last call: its arguments and its outcome

vars == <<files, data, dialect, loaded, time, timestamp_default, scope, last>>

\* self.file_name, and the path save() and load() are given
file_name == "tracking"
export_name == "export"
Paths == {file_name, export_name}

\* no file exists under the path
NoFile == <<"no such file">>

exists(path) == files[path] # NoFile

\* the object as __init__(file_name, dialect) leaves it
Constructed(d) == [data |-> <<>>, dialect |-> d, loaded |-> FALSE]

\* the object in the current state
Self == [data |-> data, dialect |-> dialect, loaded |-> loaded]

\* the inputs of the model
Activities == {<<"a">>, <<"a", COMMA, "b">>}
Timestamps == {0}
StartTime == 1
Timezones == {0, 1}
Formats == {DEFAULT_HUMAN_DATETIME, ISO_DATETIME}
InitialFiles ==
  { NoFile,
    <<>>,
    <<"0", TAB, "a", LF>>,
    <<"0", TAB, "a", COMMA, "b", LF>>,
    <<"0", LF, "1", LF>>,
    <<"x", TAB, "a", LF>> }

\* the record of a call that has not failed, before its arguments and outcome are
\* filled in: error is what the caller sees raised, inner what the read() or write()
\* inside __enter__ or __exit__ raised, result what the call returned, pending the
\* number of elements data held when the call was made
Call(op) ==
  [op |-> op, error |-> "none", inner |-> "none", result |-> <<>>, pending |-> Len(data),
   activity |-> <<>>, timestamp |-> 0, omitted |-> FALSE,
   ts_format |-> "", tz_info |-> 0, key |-> 0, body_raised |-> FALSE,
   order |-> <<>>, depth |-> 0, path |-> "", defaults |-> {}, count |-> 0]

Init ==
  /\ files \in [Paths -> InitialFiles]
  /\ files[export_name] = NoFile
  /\ dialect \in {None, Dialect}
  /\ data = Constructed(dialect).data
  /\ loaded = Constructed(dialect).loaded
  /\ time = StartTime
  /\ timestamp_default = time
  /\ scope = "outside"
  /\ last = [Call("__init__") EXCEPT !.pending = 0]

\* the clock advances
Tick ==
  /\ time < MaxClock
  /\ time' = time + 1
  /\ last' = Call("tick")
  /\ UNCHANGED <<files, data, dialect, loaded, timestamp_default, scope>>

(***************************************************************************)
(* read()                                                                  *)
(***************************************************************************)
\* int(row[0]) raises for this row: IndexError, ValueError, or "none"
RowError(row) ==
  IF row.fields = <<>> THEN "IndexError"
  ELSE IF ~IntParseable(FieldText(row.fields[1])) THEN "ValueError"
  ELSE "none"

\* [int(row[0]), *row[1:]]
IntRow(row) == Row(<<IntField(int(FieldText(row.fields[1])))>> \o Tail(row.fields))

\* the error of the first row that has one
RECURSIVE FirstError(_)
FirstError(rows) ==
  IF rows = <<>> THEN "none"
  ELSE LET Or(error) == IF error # "none" THEN error ELSE FirstError(Tail(rows))
       IN Or(RowError(Head(rows)))

RECURSIVE IntRows(_)
IntRows(rows) ==
  IF rows = <<>> THEN <<>> ELSE <<IntRow(Head(rows))>> \o IntRows(Tail(rows))

\* a read() that would add the rows of the file to the entries data already holds
ReadData_merged(rows) == data \o (IF FirstError(rows) = "none" THEN IntRows(rows) ELSE rows)

\* what read() assigns to self.data last
ReadData(rows) == IF FirstError(rows) = "none" THEN IntRows(rows) ELSE rows

\* a read() that would leave out the rows whose first field is no integer
read_outcome_best_effort(content, self) ==
  LET Raised(error) ==
        [error |-> error, data |-> self.data, dialect |-> self.dialect, loaded |-> self.loaded]
      Good(row) == RowError(row) = "none"
      Listed(d, rows) ==
        [error |-> "none", data |-> IntRows(SelectSeq(rows, Good)), dialect |-> d,
         loaded |-> TRUE]
      Sniffed(d) ==
        IF d.delimiter = "" THEN Raised("csv.Error: delimiter")
        ELSE Listed(d, reader(content, d))
  IN IF content = NoFile THEN Raised("FileNotFoundError")
     ELSE Sniffed(IF self.dialect = None THEN sniff(Sample(content)) ELSE self.dialect)

\* the outcome of self.read() when the file holds content: the error raised and
\* the object as the call leaves it
read_outcome(content, self) ==
  LET Raised(error) ==
        [error |-> error, data |-> self.data, dialect |-> self.dialect, loaded |-> self.loaded]
      Listed(d, rows) ==
        [error |-> FirstError(rows), data |-> ReadData(rows), dialect |-> d, loaded |-> TRUE]
      Sniffed(d) ==
        IF d.delimiter = "" THEN Raised("csv.Error: delimiter")
        ELSE Listed(d, reader(content, d))
  IN IF content = NoFile THEN Raised("FileNotFoundError")
     ELSE Sniffed(IF self.dialect = None THEN sniff(Sample(content)) ELSE self.dialect)

ReadOutcome == read_outcome(files[file_name], Self)

read ==
  \E r \in {ReadOutcome} :
     /\ data' = r.data
     /\ dialect' = r.dialect
     /\ loaded' = r.loaded
     /\ last' = [Call("read") EXCEPT !.error = r.error]
     /\ UNCHANGED <<files, time, timestamp_default, scope>>

(***************************************************************************)
(* write()                                                                 *)
(***************************************************************************)
\* a write() that would append whatever the loaded flag says
write_mode_append == "a"

\* the mode write() opens the file in
write_mode == IF loaded THEN "w" ELSE "a"

\* what open(path, mode) leaves of the file before anything is written
Opened(path, mode) == IF mode = "w" \/ ~exists(path) THEN <<>> ELSE files[path]

\* a write() that would detect the dialect of an existing file every time
write_dialect_detected ==
  IF exists(file_name) THEN sniff(Sample(files[file_name]))
  ELSE IF dialect = None THEN Dialect
  ELSE dialect

\* the dialect write() writes with; delimiter "" when sniffing raises
write_dialect ==
  IF dialect = None /\ exists(file_name) THEN sniff(Sample(files[file_name]))
  ELSE IF dialect = None THEN Dialect
  ELSE dialect

\* a write() that would never clear data
write_data_kept == data

\* what write() leaves in self.data when it returns
write_data == IF ~loaded THEN <<>> ELSE data

\* the outcome of write() in the current state
WriteOutcome ==
  LET Written(d, content) ==
        IF RowsUnwritable(data, d)
        THEN [error |-> "csv.Error: row", content |-> content, data |-> data,
              dialect |-> dialect]
        ELSE [error |-> "none", content |-> content, data |-> write_data,
              dialect |-> IF dialect = None THEN d ELSE dialect]
      Chosen(d) ==
        IF d.delimiter = ""
        THEN [error |-> "csv.Error: delimiter", content |-> files[file_name],
              data |-> data, dialect |-> dialect]
        ELSE Written(d, Opened(file_name, write_mode) \o TextWrite(writerows(data, d)))
  IN Chosen(write_dialect)

\* a write() that would put the object back into append mode
write_reset ==
  \E w \in {WriteOutcome} :
     /\ Len(w.content) <= MaxFileLen
     /\ files' = [files EXCEPT ![file_name] = w.content]
     /\ data' = w.data
     /\ dialect' = w.dialect
     /\ loaded' = FALSE
     /\ last' = [Call("write") EXCEPT !.error = w.error]
     /\ UNCHANGED <<time, timestamp_default, scope>>

write ==
  \E w \in {WriteOutcome} :
     /\ Len(w.content) <= MaxFileLen
     /\ files' = [files EXCEPT ![file_name] = w.content]
     /\ data' = w.data
     /\ dialect' = w.dialect
     /\ last' = [Call("write") EXCEPT !.error = w.error]
     /\ UNCHANGED <<loaded, time, timestamp_default, scope>>

(***************************************************************************)
(* append and indexed access                                               *)
(***************************************************************************)
\* an append that would put the entry in front of the others
append_first(activity, timestamp, omitted) ==
  /\ Len(data) < MaxData
  /\ data' = <<Entry(timestamp, activity)>> \o data
  /\ last' = [Call("append") EXCEPT !.activity = activity, !.timestamp = timestamp,
                                    !.omitted = omitted]
  /\ UNCHANGED <<files, dialect, loaded, time, timestamp_default, scope>>

\* an append that would put the entry in the place of the others
append_replacing(activity, timestamp, omitted) ==
  /\ Len(data) < MaxData
  /\ data' = <<Entry(timestamp, activity)>>
  /\ last' = [Call("append") EXCEPT !.activity = activity, !.timestamp = timestamp,
                                    !.omitted = omitted]
  /\ UNCHANGED <<files, dialect, loaded, time, timestamp_default, scope>>

\* append(activity, timestamp); omitted tells that the caller gave no timestamp
append(activity, timestamp, omitted) ==
  /\ Len(data) < MaxData
  /\ data' = Append(data, Entry(timestamp, activity))
  /\ last' = [Call("append") EXCEPT !.activity = activity, !.timestamp = timestamp,
                                    !.omitted = omitted]
  /\ UNCHANGED <<files, dialect, loaded, time, timestamp_default, scope>>

\* del tf[key]
delitem(key) ==
  /\ key \in 1..Len(data)
  /\ data' = SubSeq(data, 1, key - 1) \o SubSeq(data, key + 1, Len(data))
  /\ last' = [Call("__delitem__") EXCEPT !.key = key]
  /\ UNCHANGED <<files, dialect, loaded, time, timestamp_default, scope>>

\* tf[key] = value
setitem(key, value) ==
  /\ key \in 1..Len(data)
  /\ data' = [data EXCEPT ![key] = value]
  /\ last' = [Call("__setitem__") EXCEPT !.key = key]
  /\ UNCHANGED <<files, dialect, loaded, time, timestamp_default, scope>>

\* tf[key]
getitem(key) ==
  /\ key \in 1..Len(data)
  /\ last' = [Call("__getitem__") EXCEPT !.key = key]
  /\ UNCHANGED <<files, data, dialect, loaded, time, timestamp_default, scope>>

(***************************************************************************)
(* with TrackingFile(...) as tf: body                                      *)
(***************************************************************************)
enter ==
  \E r \in {ReadOutcome} :
     /\ scope = "outside"
     /\ data' = r.data
     /\ dialect' = r.dialect
     /\ loaded' = r.loaded
     /\ scope' = IF r.error = "none" THEN "body" ELSE "outside"
     /\ last' = [Call("__enter__") EXCEPT !.error = r.error, !.inner = r.error]
     /\ UNCHANGED <<files, time, timestamp_default>>

\* the error the with statement lets through after __exit__ has run
Propagated(write_error, body_raised) ==
  IF write_error # "none" THEN write_error
  ELSE IF body_raised THEN "BodyError"
  ELSE "none"

\* an __exit__ that would write only when the body has not raised
exit_unless_raised(body_raised) ==
  \E w \in {IF body_raised
            THEN [error |-> "none", content |-> files[file_name], data |-> data,
                  dialect |-> dialect]
            ELSE WriteOutcome} :
     /\ scope = "body"
     /\ Len(w.content) <= MaxFileLen
     /\ files' = [files EXCEPT ![file_name] = w.content]
     /\ data' = w.data
     /\ dialect' = w.dialect
     /\ scope' = "outside"
     /\ last' = [Call("__exit__") EXCEPT !.error = Propagated(w.error, body_raised),
                                         !.inner = w.error,
                                         !.body_raised = body_raised]
     /\ UNCHANGED <<loaded, time, timestamp_default>>

\* the body has finished or, with body_raised, has raised an error
exit(body_raised) ==
  \E w \in {WriteOutcome} :
     /\ scope = "body"
     /\ Len(w.content) <= MaxFileLen
     /\ files' = [files EXCEPT ![file_name] = w.content]
     /\ data' = w.data
     /\ dialect' = w.dialect
     /\ scope' = "outside"
     /\ last' = [Call("__exit__") EXCEPT !.error = Propagated(w.error, body_raised),
                                         !.inner = w.error,
                                         !.body_raised = body_raised]
     /\ UNCHANGED <<loaded, time, timestamp_default>>

(***************************************************************************)
(* format(), save(), load()                                                *)
(***************************************************************************)
\* tz_info=None
no_tz == -1

\* the tz_info arguments of the model: none, and one hour east of UTC
TzArguments == {no_tz, 1}

\* if not tz_info: tz_info = timezone.utc
TzOrUtc(tz_info) == IF tz_info = no_tz THEN utc ELSE tz_info

\* format_data raises on this element of data
FormatError(row) ==
  IF ~row.iterable THEN "TypeError"
  ELSE IF row.fields = <<>> THEN "IndexError"
  ELSE IF ~row.fields[1].isint THEN "TypeError"
  ELSE "none"

\* a format_data that would render every timestamp in UTC
FormatRow_utc(row, ts_format, tz) ==
  Row(<<StrField(strftime(row.fields[1].n, ts_format, utc))>> \o Tail(row.fields))

\* one row of format_data: [time_data, *row[1:]]
FormatRow(row, ts_format, tz) ==
  Row(<<StrField(strftime(row.fields[1].n, ts_format, tz))>> \o Tail(row.fields))

\* a format() that would write with the default dialect whatever the object holds
format_dialect_default == Dialect

\* the dialect format() writes with
format_dialect == IF dialect = None THEN Dialect ELSE dialect

\* the outcome of format(ts_format, tz_info) in the current state
RECURSIVE FormatRows(_, _, _)
FormatRows(rows, ts_format, tz) ==
  IF rows = <<>> THEN [error |-> "none", text |-> <<>>]
  ELSE LET Rest(line, rest) ==
             IF rest.error # "none" THEN rest
             ELSE [error |-> "none", text |-> line \o rest.text]
           Formatted(row) ==
             IF RowUnwritable(row, format_dialect)
             THEN [error |-> "csv.Error: row", text |-> <<>>]
             ELSE Rest(writerow(row, format_dialect), FormatRows(Tail(rows), ts_format, tz))
           Checked(error) ==
             IF error # "none" THEN [error |-> error, text |-> <<>>]
             ELSE Formatted(FormatRow(Head(rows), ts_format, tz))
       IN Checked(FormatError(Head(rows)))

FormatOutcome(ts_format, tz_info) == FormatRows(data, ts_format, TzOrUtc(tz_info))

\* a format() that would use up the entries it formats
format_consuming(ts_format, tz_info) ==
  \E out \in {FormatOutcome(ts_format, tz_info)} :
     /\ data' = IF out.error = "none" THEN <<>> ELSE data
     /\ last' = [Call("format") EXCEPT !.error = out.error, !.result = out.text,
                                       !.ts_format = ts_format, !.tz_info = tz_info]
     /\ UNCHANGED <<files, dialect, loaded, time, timestamp_default, scope>>

format(ts_format, tz_info) ==
  \E out \in {FormatOutcome(ts_format, tz_info)} :
     /\ last' = [Call("format") EXCEPT !.error = out.error, !.result = out.text,
                                       !.ts_format = ts_format, !.tz_info = tz_info]
     /\ UNCHANGED <<files, data, dialect, loaded, time, timestamp_default, scope>>

\* a save() that would add to the file as write() does while nothing is loaded
save_appending(ts_format, tz_info) ==
  \E out \in {FormatOutcome(ts_format, tz_info)} :
     /\ files' = IF out.error = "none"
                 THEN [files EXCEPT ![export_name] =
                         Opened(export_name, write_mode) \o TextWrite(out.text)]
                 ELSE files
     /\ last' = [Call("save") EXCEPT !.error = out.error,
                                     !.ts_format = ts_format, !.tz_info = tz_info]
     /\ UNCHANGED <<data, dialect, loaded, time, timestamp_default, scope>>

\* save(export_name, ts_format, tz_info)
save(ts_format, tz_info) ==
  \E out \in {FormatOutcome(ts_format, tz_info)} :
     /\ files' = IF out.error = "none"
                 THEN [files EXCEPT ![export_name] = TextWrite(out.text)]
                 ELSE files
     /\ last' = [Call("save") EXCEPT !.error = out.error,
                                     !.ts_format = ts_format, !.tz_info = tz_info]
     /\ UNCHANGED <<data, dialect, loaded, time, timestamp_default, scope>>

\* strptime(row[0], ts_format) raises for this row
LoadError(row, ts_format) ==
  IF row.fields = <<>> THEN "IndexError"
  ELSE IF ~FitsFormat(FieldText(row.fields[1]), ts_format) THEN "ValueError"
  ELSE "none"

RECURSIVE FirstLoadError(_, _)
FirstLoadError(rows, ts_format) ==
  IF rows = <<>> THEN "none"
  ELSE LET Or(error) == IF error # "none" THEN error ELSE FirstLoadError(Tail(rows), ts_format)
       IN Or(LoadError(Head(rows), ts_format))

\* [int(datetime.strptime(row[0], ts_format).timestamp()), *row[1:]] for every row
RECURSIVE LoadRows(_, _, _)
LoadRows(rows, ts_format, localtz) ==
  IF rows = <<>> THEN <<>>
  ELSE <<Row(<<IntField(strptime_timestamp(FieldText(Head(rows).fields[1]), ts_format, localtz))>>
             \o Tail(Head(rows).fields))>>
       \o LoadRows(Tail(rows), ts_format, localtz)

\* a load() that would empty data before it looks for the file
load_outcome_clearing(content, ts_format, tz_info, localtz) ==
  LET Converted(rows, error) ==
        IF error # "none" THEN [error |-> error, data |-> <<>>]
        ELSE [error |-> "none", data |-> LoadRows(rows, ts_format, localtz)]
      Listed(rows) == Converted(rows, FirstLoadError(rows, ts_format))
      Sniffed(this_dialect) ==
        IF this_dialect.delimiter = "" THEN [error |-> "csv.Error: delimiter", data |-> <<>>]
        ELSE Listed(reader(content, this_dialect))
  IN IF content = NoFile THEN [error |-> "FileNotFoundError", data |-> <<>>]
     ELSE Sniffed(sniff(Sample(content)))

\* the outcome of load(path, ts_format, tz_info) when the file under path holds
\* content, on a host localtz hours east of UTC
load_outcome(content, ts_format, tz_info, localtz) ==
  LET Converted(rows, error) ==
        IF error # "none" THEN [error |-> error, data |-> data]
        ELSE [error |-> "none", data |-> LoadRows(rows, ts_format, localtz)]
      Listed(rows) == Converted(rows, FirstLoadError(rows, ts_format))
      Sniffed(this_dialect) ==
        IF this_dialect.delimiter = "" THEN [error |-> "csv.Error: delimiter", data |-> data]
        ELSE Listed(reader(content, this_dialect))
  IN IF content = NoFile THEN [error |-> "FileNotFoundError", data |-> data]
     ELSE Sniffed(sniff(Sample(content)))

\* a load() that would put the object into loaded mode, as read() does
load_as_read(ts_format, tz_info, localtz) ==
  \E out \in {load_outcome(files[export_name], ts_format, tz_info, localtz)} :
     /\ data' = out.data
     /\ loaded' = (loaded \/ out.error = "none")
     /\ last' = [Call("load") EXCEPT !.error = out.error,
                                     !.ts_format = ts_format, !.tz_info = tz_info]
     /\ UNCHANGED <<files, dialect, time, timestamp_default, scope>>

\* load(export_name, ts_format, tz_info)
load(ts_format, tz_info, localtz) ==
  \E out \in {load_outcome(files[export_name], ts_format, tz_info, localtz)} :
     /\ data' = out.data
     /\ last' = [Call("load") EXCEPT !.error = out.error,
                                     !.ts_format = ts_format, !.tz_info = tz_info]
     /\ UNCHANGED <<files, dialect, loaded, time, timestamp_default, scope>>

(***************************************************************************)
(* The specification.                                                      *)
(***************************************************************************)
\* the TrackingFile object is used, directly and in with statements
Next ==
  \/ read
  \/ write
  \/ \E activity \in Activities, timestamp \in Timestamps : append(activity, timestamp, FALSE)
  \/ \E key \in 1..MaxData : delitem(key)
  \/ \E key \in 1..MaxData : setitem(key, Scalar)
  \/ \E key \in 1..MaxData : getitem(key)
  \/ enter
  \/ \E body_raised \in BOOLEAN : exit(body_raised)

Spec == Init /\ [][Next]_vars

\* entries are appended with and without a timestamp while the clock advances
NextClock ==
  \/ Tick
  \/ \E activity \in Activities, timestamp \in Timestamps : append(activity, timestamp, FALSE)
  \/ \E activity \in Activities : append(activity, timestamp_default, TRUE)
  \/ \E key \in 1..MaxData : delitem(key)
  \/ write

SpecClock == Init /\ [][NextClock]_vars

\* the object is filled and exported to and imported from the human format
InitHuman ==
  /\ Init
  /\ files[file_name] = NoFile
  /\ dialect = None

NextHuman ==
  \/ \E activity \in Activities, timestamp \in Timestamps : append(activity, timestamp, FALSE)
  \/ \E key \in 1..MaxData : delitem(key)
  \/ \E ts_format \in Formats, tz_info \in TzArguments : format(ts_format, tz_info)
  \/ \E ts_format \in Formats, tz_info \in TzArguments : save(ts_format, tz_info)
  \/ \E tz_info \in TzArguments, localtz \in Timezones :
       load(DEFAULT_HUMAN_DATETIME, tz_info, localtz)

SpecHuman == InitHuman /\ [][NextHuman]_vars

\* every operation of the object, with the default arguments of format, save and load
InitAll ==
  /\ Init
  /\ files[file_name] \in {NoFile, <<"0", TAB, "a", LF>>}

NextAll ==
  \/ read
  \/ write
  \/ append(<<"a">>, 0, FALSE)
  \/ \E key \in 1..MaxData : delitem(key)
  \/ \E key \in 1..MaxData : setitem(key, Scalar)
  \/ \E key \in 1..MaxData : getitem(key)
  \/ format(DEFAULT_HUMAN_DATETIME, no_tz)
  \/ save(DEFAULT_HUMAN_DATETIME, no_tz)
  \/ \E localtz \in Timezones : load(DEFAULT_HUMAN_DATETIME, no_tz, localtz)

SpecAll == InitAll /\ [][NextAll]_vars

\* the operations that fill data from files and from append
InitEntries ==
  /\ Init
  /\ files[file_name] \in {NoFile, <<"0", TAB, "a", LF>>, <<"x", TAB, "a", LF>>}

NextEntries ==
  \/ read
  \/ write
  \/ \E activity \in Activities, timestamp \in Timestamps : append(activity, timestamp, FALSE)
  \/ \E ts_format \in Formats, tz_info \in TzArguments : format(ts_format, tz_info)
  \/ save(DEFAULT_HUMAN_DATETIME, no_tz)
  \/ \E localtz \in Timezones : load(DEFAULT_HUMAN_DATETIME, no_tz, localtz)

SpecEntries == InitEntries /\ [][NextEntries]_vars

\* entries appended, read and deleted are exported in every format and timezone
NextSave ==
  \/ read
  \/ \E activity \in Activities, timestamp \in Timestamps : append(activity, timestamp, FALSE)
  \/ \E key \in 1..MaxData : delitem(key)
  \/ \E ts_format \in Formats, tz_info \in TzArguments : save(ts_format, tz_info)

SpecSave == InitAll /\ [][NextSave]_vars

\* appended entries are exported without the UTC offset and imported on hosts in
\* different timezones; only entries that were appended are exported
NextLoad ==
  \/ \E activity \in Activities, timestamp \in Timestamps : append(activity, timestamp, FALSE)
  \/ \E key \in 1..MaxData : delitem(key)
  \/ \E tz_info \in TzArguments :
       /\ \A i \in 1..Len(data) : data[i].fields[1].n \in Timestamps
       /\ save(ISO_DATETIME, tz_info)
  \/ \E tz_info \in TzArguments, localtz \in Timezones : load(ISO_DATETIME, tz_info, localtz)

SpecLoad == InitHuman /\ [][NextLoad]_vars

(***************************************************************************)
(* The properties of the TrackingFile object.                              *)
(***************************************************************************)
\* a write() has just returned without raising, called directly or by __exit__
WriteDone ==
  \/ last.op = "write" /\ last.error = "none"
  \/ last.op = "__exit__" /\ last.inner = "none"

\* a read() has just returned without raising, called directly or by __enter__
ReadDone == last.op \in {"read", "__enter__"} /\ last.error = "none"

\* the rows as lines of a text-mode file, written in dialect d
RECURSIVE RowLines(_, _)
RowLines(rows, d) ==
  IF rows = <<>> THEN <<>>
  ELSE TextWrite(writerow(Head(rows), d)) \o RowLines(Tail(rows), d)

\* every element is a pair of an integer timestamp and a text activity
Entries(rows) ==
  \A i \in 1..Len(rows) :
    /\ rows[i].iterable
    /\ Len(rows[i].fields) = 2
    /\ rows[i].fields[1].isint
    /\ ~rows[i].fields[2].isint

\* the timestamps of the rows, in order
TimestampsOf(rows) == [i \in 1..Len(rows) |-> rows[i].fields[1].n]

\* C1: a successful write() with loaded false leaves the file equal to its previous
\* contents (empty if the file was absent) followed by the rows of data in order,
\* and leaves data empty; a second write() right after it leaves the file as it is
C1_AppendWrite ==
  [][(WriteDone' /\ ~loaded)
       => /\ files'[file_name]
               = (IF exists(file_name) THEN files[file_name] ELSE <<>>)
                 \o RowLines(data, dialect')
          /\ data' = <<>>
          /\ (WriteDone => files'[file_name] = files[file_name])]_vars

\* an entry was appended to an existing file by a write() in append mode
C1_Appended ==
  /\ last.op = "write" /\ last.error = "none" /\ last.pending = 1
  /\ ~loaded
  /\ data = <<>>
  /\ files[file_name] = <<"0", TAB, "a", LF, "0", TAB, "a", COMMA, "b", CR, LF>>

\* C2: a successful write() with loaded true makes the file hold exactly the rows
\* of data, in order, whatever it held before, and leaves data unchanged
C2_LoadedWrite ==
  [][(WriteDone' /\ loaded)
       => /\ files'[file_name] = RowLines(data, dialect')
          /\ data' = data]_vars

\* the file was read, its only row deleted and another appended, then written
C2_Overwritten ==
  /\ last.op = "write" /\ last.error = "none"
  /\ loaded
  /\ dialect.delimiter = TAB
  /\ data = <<Entry(0, <<"a", COMMA, "b">>)>>
  /\ files[file_name] = <<"0", TAB, "a", COMMA, "b", CR, LF>>

\* C3: after a successful write() in loaded mode of data that holds (integer
\* timestamp, text activity) pairs, read() on a fresh TrackingFile bound to the
\* same path, with no dialect given, succeeds and yields exactly data
C3_RoundTrip ==
  [][(WriteDone' /\ loaded /\ data # <<>> /\ Entries(data))
       => \E r \in {read_outcome(files'[file_name], Constructed(None))} :
             r.error = "none" /\ r.data = data]_vars

\* an entry whose activity holds a comma was written in loaded mode, and a fresh
\* read() of the file raises ValueError
C3_Unreadable ==
  /\ last.op = "write" /\ last.error = "none"
  /\ loaded
  /\ data = <<Entry(0, <<"a", COMMA, "b">>)>>
  /\ read_outcome(files[file_name], Constructed(None)).error = "ValueError"

\* C4: after save(path, fmt, tz1) of data with a format that holds date, time and
\* UTC offset, load(path, fmt, tz2) succeeds for every tz2 and yields the
\* timestamps of data
C4_HumanRoundTrip ==
  [][(last'.op = "save" /\ last'.error = "none" /\ data # <<>>
      /\ last'.ts_format = DEFAULT_HUMAN_DATETIME)
       => \A tz2 \in TzArguments, localtz \in Timezones :
            \E out \in {load_outcome(files'[export_name], DEFAULT_HUMAN_DATETIME, tz2, localtz)} :
               out.error = "none" /\ TimestampsOf(out.data) = TimestampsOf(data)]_vars

\* an entry whose activity holds a comma was saved, and load() of the file raised
C4_Unloadable ==
  /\ last.op = "load" /\ last.error = "ValueError"
  /\ last.ts_format = DEFAULT_HUMAN_DATETIME
  /\ data = <<Entry(0, <<"a", COMMA, "b">>)>>
  /\ files[export_name] = TextWrite(FormatRows(data, DEFAULT_HUMAN_DATETIME, utc).text)

\* C5: a successful read() sets loaded and makes data the rows of the file in file
\* order, whatever data held before the call
C5_ReadReplaces ==
  [][ReadDone' => /\ loaded'
                  /\ data' = IntRows(reader(files[file_name], dialect'))]_vars

\* read() was called with two appended entries in data, and data is the one row
\* of the file
C5_Replaced ==
  /\ last.op = "read" /\ last.error = "none" /\ last.pending = 2
  /\ loaded
  /\ files[file_name] = <<"0", TAB, "a", LF>>
  /\ data = <<Entry(0, <<"a">>)>>

\* C6: append(activity, timestamp) adds the one entry [timestamp, activity] at the
\* end of data and leaves the entries before it, loaded, the dialect and the
\* files as they are
C6_AppendFrame ==
  [][last'.op = "append"
       => /\ data' = data \o <<Row(<<IntField(last'.timestamp), StrField(last'.activity)>>)>>
          /\ loaded' = loaded
          /\ dialect' = dialect
          /\ files' = files]_vars

\* a second entry was appended and the file still does not exist
C6_Appended ==
  /\ last.op = "append" /\ last.pending = 1
  /\ data = <<Entry(0, <<"a">>), Entry(0, <<"a", COMMA, "b">>)>>
  /\ ~exists(file_name)

\* C7: append(activity) without a timestamp stores the second that is current at
\* the moment of the call
C7_FreshTimestamp ==
  [][(last'.op = "append" /\ last'.omitted)
       => data'[Len(data')].fields[1].n = time]_vars

\* append(activity) without a timestamp has stored a second that is not the
\* current one
C7_Stale ==
  /\ last.op = "append" /\ last.omitted
  /\ data[Len(data)].fields[1].n # time

C9_LoadedStays ==
  /\ ~loaded
  /\ [][loaded => loaded']_vars
  /\ [][(last'.op = "write" /\ last'.error = "none" /\ loaded)
          => files'[file_name] = RowLines(data, dialect')]_vars

\* after a read(), save() and load() the object is still loaded and a write() has
\* overwritten the file
C9_StillLoaded ==
  /\ loaded
  /\ last.op = "write" /\ last.error = "none"
  /\ exists(export_name)
  /\ data = <<Entry(0, <<"a">>), Entry(0, <<"a">>)>>
  /\ files[file_name] = RowLines(data, dialect)

\* C10: when detection of the dialect fails on a non-empty sample of the file,
\* read() and write() do not raise the detection failure and go on with the
\* default dialect
C10_Fallback ==
  [][(/\ last'.op \in {"read", "write"}
      /\ dialect = None /\ exists(file_name)
      /\ Sample(files[file_name]) # <<>>
      /\ SniffFails(Sample(files[file_name])))
       => last'.error # "csv.Error: delimiter" /\ dialect' = Dialect]_vars

\* read() of a file with a single column has raised the detection failure
C10_Propagated ==
  /\ last.op = "read" /\ last.error = "csv.Error: delimiter"
  /\ files[file_name] = <<"0", LF, "1", LF>>
  /\ dialect = None

\* C11: with no dialect set and the file absent or empty, write() and read() go
\* on with the default dialect: write() of writable rows leaves them in the file
\* in that dialect, read() of the empty file returns with data empty
C11_DefaultDialect ==
  [][(dialect = None /\ files[file_name] \in {NoFile, <<>>})
       => /\ (last'.op = "write" /\ ~RowsUnwritable(data, Dialect))
               => /\ last'.error = "none"
                  /\ dialect' = Dialect
                  /\ files'[file_name] = RowLines(data, Dialect)
          /\ (last'.op = "read" /\ exists(file_name))
               => /\ last'.error = "none"
                  /\ dialect' = Dialect
                  /\ data' = <<>>]_vars

\* write() on an existing empty file has raised the detection failure and has
\* left the entry in data and the file empty
C11_EmptyRaises ==
  /\ last.op = "write" /\ last.error = "csv.Error: delimiter"
  /\ files[file_name] = <<>>
  /\ dialect = None
  /\ data = <<Entry(0, <<"a">>)>>

\* C12: a read() or write() that returns without raising leaves the dialect set;
\* a dialect that is set is never changed, whatever is called; and a write()
\* that finds it set writes the rows in it, whatever the file holds
C12_DialectCached ==
  /\ [][((last'.op \in {"read", "write"}) /\ last'.error = "none") => dialect' # None]_vars
  /\ [][dialect # None => dialect' = dialect]_vars
  /\ [][(last'.op = "write" /\ last'.error = "none" /\ dialect # None)
          => files'[file_name] = Opened(file_name, write_mode) \o RowLines(data, dialect)]_vars

\* the object was given the default dialect, the entries were exported, and a
\* write() has added a row that ends as that dialect ends rows, not as a dialect
\* detected from the file does
C12_KeptGiven ==
  /\ last.op = "write" /\ last.error = "none"
  /\ dialect = Dialect
  /\ exists(export_name)
  /\ sniff(Sample(files[file_name])).lineterminator # Dialect.lineterminator
  /\ files[file_name] = <<"0", TAB, "a", LF, "0", TAB, "a", LF>>

\* the rows csv.reader yields for the tracking file in dialect d
FileRows(d) == reader(files[file_name], d)

\* the first field of the row is there and is the text of an integer
LeadingInt(row) == row.fields # <<>> /\ IntParseable(FieldText(row.fields[1]))

\* C13: read() raises whenever a row of the file has no integer as its first
\* field (ValueError when that field is there), and when it returns without
\* raising data has one entry for every row of the file
C13_ReadAllOrFail ==
  [][(last'.op = "read" /\ exists(file_name) /\ dialect' # None)
       => /\ (\E i \in 1..Len(FileRows(dialect')) : ~LeadingInt(FileRows(dialect')[i]))
               => last'.error \in {"ValueError", "IndexError"}
          /\ (\E i \in 1..Len(FileRows(dialect')) :
                 /\ FileRows(dialect')[i].fields # <<>>
                 /\ ~LeadingInt(FileRows(dialect')[i])
                 /\ \A h \in 1..(i - 1) : LeadingInt(FileRows(dialect')[h]))
               => last'.error = "ValueError"
          /\ last'.error = "none"
               => /\ Len(data') = Len(FileRows(dialect'))
                  /\ \A i \in 1..Len(data') : data'[i].fields[1].isint]_vars

\* read() of a file whose second row starts with an integer and whose first row
\* does not has raised ValueError
C13_OneBadRow ==
  /\ last.op = "read" /\ last.error = "ValueError"
  /\ files[file_name] = <<"x", TAB, "a", LF, "0", TAB, "a", LF>>

\* C14: the first element of every entry of data is an integer, in every state
\* reached by read(), load(), write(), format(), save() and append() with an
\* integer timestamp, those reached when one of the calls raised included
C14_IntTimestamps ==
  \A i \in 1..Len(data) :
     data[i].iterable /\ data[i].fields # <<>> /\ data[i].fields[1].isint

\* read() has raised ValueError and has left the rows of the file in data, the
\* first field of the row a text
C14_TextTimestamp ==
  /\ last.op = "read" /\ last.error = "ValueError"
  /\ loaded
  /\ data = <<Row(<<StrField(<<"x">>), StrField(<<"a">>)>>)>>

\* the entries as lines in dialect d, the timestamp of each rendered per
\* ts_format in the timezone tz and the other fields as they are
RECURSIVE RenderedLines(_, _, _, _)
RenderedLines(rows, ts_format, tz, d) ==
  IF rows = <<>> THEN <<>>
  ELSE JoinFields(<<StrField(strftime(Head(rows).fields[1].n, ts_format, tz))>>
                    \o Tail(Head(rows).fields), d, FALSE)
       \o d.lineterminator
       \o RenderedLines(Tail(rows), ts_format, tz, d)

\* text ends with the characters of suffix
EndsWith(text, suffix) ==
  /\ Len(text) >= Len(suffix)
  /\ SubSeq(text, Len(text) - Len(suffix) + 1, Len(text)) = suffix

\* C15: format(fmt, tz) of entries with integer timestamps returns, in the order
\* of data, one line per entry that ends with the line terminator of the dialect:
\* the timestamp rendered per fmt in tz (UTC when tz is omitted), then the other
\* fields; nothing when data is empty
C15_FormatLines ==
  [][(last'.op = "format" /\ Entries(data))
       => /\ last'.error = "none"
          /\ last'.result
               = RenderedLines(data, last'.ts_format,
                               IF last'.tz_info = no_tz THEN utc ELSE last'.tz_info,
                               IF dialect = None THEN Dialect ELSE dialect)
          /\ data = <<>> => last'.result = <<>>
          /\ data # <<>>
               => EndsWith(last'.result,
                           IF dialect = None THEN os_linesep ELSE dialect.lineterminator)]_vars

\* the entry read from the file was formatted without the offset, one hour east
\* of UTC, in the dialect detected by read()
C15_Formatted ==
  /\ last.op = "format" /\ last.error = "none"
  /\ last.ts_format = ISO_DATETIME /\ last.tz_info = 1
  /\ data = <<Entry(0, <<"a">>)>>
  /\ last.result = EpochDay \o <<" ", "0", "1", ":", "0", "0", ":", "0", "0", TAB, "a", CR, LF>>

\* C16: format() leaves data, loaded, the dialect and the files as they are, and
\* what it returns is the rendering of the entries data holds when it is called
C16_FormatPure ==
  [][last'.op = "format"
       => /\ data' = data
          /\ loaded' = loaded
          /\ dialect' = dialect
          /\ files' = files
          /\ last'.error = "none"
               => last'.result
                    = RenderedLines(data', last'.ts_format,
                                    IF last'.tz_info = no_tz THEN utc ELSE last'.tz_info,
                                    IF dialect' = None THEN Dialect ELSE dialect')]_vars

\* two entries were exported, one of them was deleted since, and format() has
\* returned the one line of the entry that is left
C16_ReflectsChange ==
  /\ last.op = "format" /\ last.error = "none"
  /\ data = <<Entry(0, <<"a">>)>>
  /\ files[export_name]
       = RenderedLines(<<Entry(0, <<"a">>), Entry(0, <<"a">>)>>, DEFAULT_HUMAN_DATETIME, utc, Dialect)
  /\ last.result = RenderedLines(data, DEFAULT_HUMAN_DATETIME, utc, Dialect)
  /\ Len(last.result) = 28

\* C17: the dialect format() writes the rows with is the dialect a write() called
\* in the same state writes them with, whenever that write() finds one
C17_FormatAsWrite ==
  [][(last'.op = "format" /\ write_dialect.delimiter # "")
       => format_dialect = write_dialect]_vars

\* C17 as amended: format() writes the rows with the dialect of the object, which
\* is the one a write() called in the same state writes with, when a dialect is
\* set, and with the default dialect when none is set, which is the one of that
\* write() when the file does not exist
C17_FormatDialect ==
  [][(last'.op = "format" /\ last'.error = "none")
       => /\ (dialect # None \/ ~exists(file_name))
               => /\ format_dialect = write_dialect
                  /\ last'.result
                       = RenderedLines(data, last'.ts_format,
                                       IF last'.tz_info = no_tz THEN utc ELSE last'.tz_info,
                                       write_dialect)
          /\ dialect = None
               => last'.result
                    = RenderedLines(data, last'.ts_format,
                                    IF last'.tz_info = no_tz THEN utc ELSE last'.tz_info,
                                    Dialect)]_vars

\* read() has detected a dialect that ends rows with "\r\n", and format() has
\* ended the line of the entry with it, as write() would
C17_Agrees ==
  /\ last.op = "format" /\ last.error = "none"
  /\ dialect # None /\ dialect.lineterminator = <<CR, LF>>
  /\ write_dialect = dialect
  /\ data = <<Entry(0, <<"a">>)>>
  /\ EndsWith(last.result, <<"a", CR, LF>>)

\* C18: a save(path, fmt, tz) that returns leaves under path exactly what
\* format(fmt, tz) returns in that state, whatever path held and whether loaded is
\* set or not, and leaves data, loaded, the dialect and the tracking file as they
\* are
C18_SaveIsFormat ==
  [][(last'.op = "save" /\ last'.error = "none")
       => /\ files'[export_name]
               = RenderedLines(data, last'.ts_format,
                               IF last'.tz_info = no_tz THEN utc ELSE last'.tz_info,
                               IF dialect = None THEN Dialect ELSE dialect)
          /\ files'[file_name] = files[file_name]
          /\ data' = data
          /\ loaded' = loaded
          /\ dialect' = dialect]_vars

\* with nothing loaded, save() has left under the path the line of the one entry
\* of data, rendered one hour east of UTC
C18_Replaced ==
  /\ last.op = "save" /\ last.error = "none" /\ last.pending = 1
  /\ last.ts_format = DEFAULT_HUMAN_DATETIME /\ last.tz_info = 1
  /\ ~loaded
  /\ data = <<Entry(0, <<"a">>)>>
  /\ files[export_name]
       = EpochDay \o <<" ", "0", "1", ":", "0", "0", ":", "0", "0", " ",
                       "+", "0", "1", "0", "0", TAB, "a", LF>>

\* C19: load(path) on a path under which no file exists raises FileNotFoundError
\* and leaves data, loaded, the dialect and the files, the missing one included,
\* as they are
C19_LoadMissing ==
  [][(last'.op = "load" /\ ~exists(export_name))
       => /\ last'.error = "FileNotFoundError"
          /\ data' = data
          /\ loaded' = loaded
          /\ dialect' = dialect
          /\ files' = files]_vars

\* load() of a missing file has raised on an object that holds the entry read
\* from the tracking file
C19_Missing ==
  /\ last.op = "load" /\ last.error = "FileNotFoundError"
  /\ ~exists(export_name)
  /\ loaded /\ dialect # None
  /\ data = <<Entry(0, <<"a">>)>>

\* C20: load(path, fmt, tz) of timestamps written without a UTC offset yields the
\* seconds of those wall-clock times in tz (UTC when tz is omitted), the same on
\* a host in any timezone
C20_LoadInTz ==
  [][(last'.op = "load" /\ last'.error = "none" /\ last'.ts_format = ISO_DATETIME)
       => \A localtz \in Timezones :
            data' = load_outcome(files[export_name], ISO_DATETIME, last'.tz_info,
                                 IF last'.tz_info = no_tz THEN utc ELSE last'.tz_info).data
                 /\ data' = load_outcome(files[export_name], ISO_DATETIME, last'.tz_info,
                                         localtz).data]_vars

\* the entry of second 0 was exported in UTC without the offset, and load() with
\* tz omitted, on a host one hour east of UTC, has made it second -3600
C20_HostTime ==
  /\ last.op = "load" /\ last.error = "none"
  /\ last.ts_format = ISO_DATETIME /\ last.tz_info = no_tz
  /\ files[export_name] = EpochDay \o <<" ", "0", "0", ":", "0", "0", ":", "0", "0", TAB, "a", LF>>
  /\ data = <<Entry(-3600, <<"a">>)>>

(***************************************************************************)
(* Configuration files: file_finder and config_loader.                     *)
(***************************************************************************)
DEFAULT_CONFIG_RESOLVE_ORDER ==
  << "/home/{}/.config/tt/tt.conf",
     "/home/{}/.config/tt.conf",
     "/home/{}/.tt/tt.conf",
     "/etc/tt/tt.conf",
     "/etc/tt.conf" >>

\* a path of the caller's own choosing
own_conf == "own.conf"

ConfigPaths == {DEFAULT_CONFIG_RESOLVE_ORDER[i] : i \in 1..5} \cup {own_conf}

\* a configuration: the set of <<section, option, value>> it holds, one value for
\* each option of a section
ConfigSet(config, section, option, value) ==
  {t \in config : ~(t[1] = section /\ t[2] = option)} \cup {<<section, option, value>>}

\* DEFAULT_CONFIG: {'user': {'file': '/etc/tt/tt.conf'}}
DEFAULT_CONFIG ==
  { << <<"u", "s", "e", "r">>, <<"f", "i", "l", "e">>,
       <<"/", "e", "t", "c", "/", "t", "t", "/", "t", "t", ".", "c", "o", "n", "f">> >> }

\* RawConfigParser.optionxform: str.lower, on the capitals the model writes
lower(s) == [i \in 1..Len(s) |-> IF s[i] = "F" THEN "f" ELSE s[i]]

\* RawConfigParser.read_dict on a new parser: option names go through optionxform
read_dict(dictionary) == {<<t[1], lower(t[2]), t[3]>> : t \in dictionary}

\* the position of the last c in s, 0 when there is none
LastIndex(s, c) ==
  IF ~Contains(s, c) THEN 0
  ELSE CHOOSE i \in 1..Len(s) : s[i] = c /\ \A h \in (i + 1)..Len(s) : s[h] # c

\* the position of the first "=" or ":" in s, 0 when there is none
DelimiterIndex(s) ==
  IF ~(Contains(s, "=") \/ Contains(s, ":")) THEN 0
  ELSE CHOOSE i \in 1..Len(s) :
         /\ s[i] \in {"=", ":"}
         /\ \A h \in 1..(i - 1) : s[h] \notin {"=", ":"}

\* RawConfigParser._read over the lines of a file without comments, continuation
\* lines and duplicates: "[name]" opens a section, "option = value" sets an option
\* of the open section; section is <<>> while none is open
RECURSIVE ReadLines(_, _, _)
ReadLines(lines, section, config) ==
  LET line == strip(Head(lines))
      close == LastIndex(line, "]")
      at == DelimiterIndex(line)
      option == lower(rstrip(SubSeq(line, 1, at - 1)))
      value == strip(SubSeq(line, at + 1, Len(line)))
  IN IF lines = <<>> THEN [error |-> "none", config |-> config]
     ELSE IF line = <<>> THEN ReadLines(Tail(lines), section, config)
     ELSE IF Head(line) = "[" /\ close > 2
       THEN ReadLines(Tail(lines), SubSeq(line, 2, close - 1), config)
     ELSE IF section = <<>>
       THEN [error |-> "MissingSectionHeaderError", config |-> config]
     ELSE IF at = 0 \/ option = <<>> THEN [error |-> "ParsingError", config |-> config]
     ELSE ReadLines(Tail(lines), section, ConfigSet(config, section, option, value))

\* RawConfigParser.read(name): a file that cannot be opened is skipped
config_read(config, path) ==
  IF ~exists(path) THEN [error |-> "none", config |-> config]
  ELSE ReadLines(split_lf(TextRead(files[path])), <<>>, config)

\* sys.getrecursionlimit()
RecursionLimit == 1000

\* file_finder(order), entered at the given depth of the interpreter's stack: a call
\* entered at the limit fails at the first call it makes itself, which is
\* os.path.exists or the constructor of the exception
RECURSIVE file_finder_outcome(_, _)
file_finder_outcome(order, depth) ==
  IF depth >= RecursionLimit THEN [error |-> "RecursionError", path |-> ""]
  ELSE IF order = <<>> THEN [error |-> "FileNotFoundError", path |-> ""]
  ELSE IF exists(order[1]) THEN [error |-> "none", path |-> order[1]]
  ELSE file_finder_outcome(Tail(order), depth + 1)

file_finder(order, depth) ==
  /\ last' = [Call("file_finder") EXCEPT
                !.order = order, !.depth = depth,
                !.error = file_finder_outcome(order, depth).error,
                !.path = file_finder_outcome(order, depth).path]
  /\ UNCHANGED <<files, data, dialect, loaded, time, timestamp_default, scope>>

\* the file config_loader settles on: name when it is given, what file_finder
\* returns otherwise
config_loader_path(name, order, depth) ==
  IF name # "" THEN [error |-> "none", path |-> name]
  ELSE file_finder_outcome(IF order = <<>> THEN DEFAULT_CONFIG_RESOLVE_ORDER ELSE order,
                           depth + 1)

\* config_loader(file_name, order, defaults): "" is a file_name, <<>> an order and
\* {} a defaults that is not given
config_loader_outcome(name, order, defaults, depth) ==
  LET found == config_loader_path(name, order, depth)
      config == read_dict(IF defaults = {} THEN DEFAULT_CONFIG ELSE defaults)
  IN IF found.error # "none" THEN [error |-> found.error, config |-> {}, path |-> ""]
     ELSE [error |-> config_read(config, found.path).error,
           config |-> IF config_read(config, found.path).error = "none"
                        THEN config_read(config, found.path).config ELSE {},
           path |-> found.path]

config_loader(name, order, defaults, depth) ==
  /\ last' = [Call("config_loader") EXCEPT
                !.path = name, !.order = order, !.defaults = defaults,
                !.depth = depth,
                !.error = config_loader_outcome(name, order, defaults, depth).error,
                !.result = config_loader_outcome(name, order, defaults, depth).config]
  /\ UNCHANGED <<files, data, dialect, loaded, time, timestamp_default, scope>>

\* the inputs of the model: configuration files, candidate lists, defaults and the
\* depth of the stack at the call, from the top level of a script or from deep inside
\* a program
MaxOrder == 3
ConfigFiles ==
  { NoFile,
    <<"[", "u", "s", "e", "r", "]", LF, "F", "i", "l", "e", "=", "x", LF>>,
    <<"f", "i", "l", "e", "=", "x", LF>> }
Candidates == {own_conf, "/etc/tt/tt.conf"}
Orders == UNION {[1..n -> Candidates] : n \in 0..MaxOrder}
Defaults == {{}, { << <<"t", "e", "s", "t">>, <<"v", "a", "l", "u", "e">>, <<"y", "e", "s">> >> }}

InitConfig ==
  /\ files \in [ConfigPaths -> ConfigFiles]
  /\ \A path \in ConfigPaths \ Candidates : files[path] = NoFile
  /\ dialect = None
  /\ data = Constructed(dialect).data
  /\ loaded = Constructed(dialect).loaded
  /\ time = StartTime
  /\ timestamp_default = time
  /\ scope = "outside"
  /\ last = [Call("__init__") EXCEPT !.pending = 0]

NextConfig ==
  \/ \E order \in Orders, depth \in {2, RecursionLimit - 2} : file_finder(order, depth)
  \/ \E name \in Candidates \cup {""}, order \in Orders, defaults \in Defaults :
       config_loader(name, order, defaults, 2)

SpecConfig == InitConfig /\ [][NextConfig]_vars

(***************************************************************************)
(* Claims about the configuration files.                                   *)
(***************************************************************************)
\* the positions of the candidates that exist
Existing(order) == {i \in 1..Len(order) : exists(order[i])}

\* C21: file_finder returns the existing candidate of lowest index, and fails
\* with FileNotFoundError exactly when the list is empty or no candidate exists;
\* it never fails in another way, however long the list and wherever it is called
C21_FirstExisting ==
  last.op = "file_finder" =>
    IF Existing(last.order) = {}
      THEN last.error = "FileNotFoundError"
      ELSE /\ last.error = "none"
           /\ \E i \in Existing(last.order) :
                /\ last.path = last.order[i]
                /\ \A h \in Existing(last.order) : i <= h

\* C21 diverges: an existing candidate stands behind missing ones, and the call ends
\* in a RecursionError because every missing candidate has taken a level of the stack
C21_RecursionError ==
  /\ last.op = "file_finder"
  /\ last.error = "RecursionError"
  /\ Existing(last.order) # {}
  /\ Len(last.order) <= MaxOrder

\* C22: config_loader with an explicit path loads that path, whatever the
\* candidates are, and fails when the path does not exist
C22_ExplicitPath ==
  (last.op = "config_loader" /\ last.path # "") =>
    LET config == read_dict(IF last.defaults = {} THEN DEFAULT_CONFIG ELSE last.defaults)
    IN IF ~exists(last.path) THEN last.error # "none"
       ELSE /\ last.error = config_read(config, last.path).error
            /\ last.error = "none" => last.result = config_read(config, last.path).config

\* C22 diverges: the explicit path is missing, and the call returns the defaults
C22_DefaultsOnly ==
  /\ last.op = "config_loader"
  /\ last.path # ""
  /\ ~exists(last.path)
  /\ last.error = "none"
  /\ last.result = read_dict(IF last.defaults = {} THEN DEFAULT_CONFIG ELSE last.defaults)

(***************************************************************************)
(* Commands.                                                               *)
(***************************************************************************)
\* write() of an object other than the one of the state, on a file that holds
\* content: the error raised, what the file holds then, and the object
write_outcome(content, self) ==
  LET mode == IF self.loaded THEN "w" ELSE "a"
      before == IF mode = "w" \/ content = NoFile THEN <<>> ELSE content
      Raised(error, after) ==
        [error |-> error, content |-> after, data |-> self.data,
         dialect |-> self.dialect, loaded |-> self.loaded]
      Written(d, after) ==
        IF RowsUnwritable(self.data, d) THEN Raised("csv.Error: row", after)
        ELSE [error |-> "none", content |-> after,
              data |-> IF ~self.loaded THEN <<>> ELSE self.data,
              dialect |-> IF self.dialect = None THEN d ELSE self.dialect,
              loaded |-> self.loaded]
      Chosen(d) ==
        IF d.delimiter = "" THEN Raised("csv.Error: delimiter", content)
        ELSE Written(d, before \o TextWrite(writerows(self.data, d)))
  IN Chosen(IF self.dialect = None /\ content # NoFile THEN sniff(Sample(content))
            ELSE IF self.dialect = None THEN Dialect
            ELSE self.dialect)

\* data[-count:]
LastEntries(rows, count) ==
  IF count = 0 \/ count >= Len(rows) THEN rows
  ELSE SubSeq(rows, Len(rows) - count + 1, Len(rows))

\* the body of the with statement of CommandTail.command, tail =
\* tracking_file.read().data[-count:], for the object self as read() leaves it and
\* the value read() returns, the object or "None": the error raised and the entries
\* handed to print
tail_expression(self, returned, count) ==
  IF self.error # "none" THEN [error |-> self.error, tail |-> <<>>]
  ELSE IF returned = "None" THEN [error |-> "AttributeError", tail |-> <<>>]
  ELSE [error |-> "none", tail |-> LastEntries(returned.data, count)]

\* read() has no return statement, so that the call returns None
tail_body(self, count) == tail_expression(self, "None", count)

\* CommandTail.command(count=count) with config['target_file'] = file_name: a new
\* TrackingFile is entered, which reads the file; the body reads it again; __exit__
\* writes, whether the body has raised or not
CommandTailOutcome(count) ==
  LET entered == read_outcome(files[file_name], Constructed(None))
      Exited(body, w) ==
        [error |-> IF w.error # "none" THEN w.error ELSE body.error,
         inner |-> w.error, tail |-> body.tail, content |-> w.content]
      Body(self) == Exited(tail_body(self, count), write_outcome(files[file_name], self))
  IN IF entered.error # "none"
       THEN [error |-> entered.error, inner |-> entered.error, tail |-> <<>>,
             content |-> files[file_name]]
       ELSE Body(read_outcome(files[file_name], entered))

CommandTail(count) ==
  \E c \in {CommandTailOutcome(count)} :
     /\ scope = "outside"
     /\ Len(c.content) <= MaxFileLen
     /\ files' = [files EXCEPT ![file_name] = c.content]
     /\ last' = [Call("CommandTail") EXCEPT !.count = count, !.error = c.error,
                                            !.inner = c.inner, !.result = c.tail]
     /\ UNCHANGED <<data, dialect, loaded, time, timestamp_default, scope>>

\* the counts of the model
Counts == 0..2

NextTail ==
  \/ \E count \in Counts : CommandTail(count)
  \/ \E activity \in Activities, timestamp \in Timestamps : append(activity, timestamp, FALSE)
  \/ write

SpecTail == Init /\ [][NextTail]_vars

(***************************************************************************)
(* Claims about the commands.                                              *)
(***************************************************************************)
\* what a new TrackingFile on the tracking file reads
FreshRead == read_outcome(files[file_name], Constructed(None))

\* C23: CommandTail.command(count=n) on a readable tracking file completes without
\* an error and shows the last n entries of the file, all of them when there are
\* fewer
C23_TailShows ==
  [][(last'.op = "CommandTail" /\ FreshRead.error = "none") =>
       /\ last'.error = "none"
       /\ last'.result = LastEntries(FreshRead.data, last'.count)]_vars

\* C23 diverges: the tracking file was readable and held entries, and the command
\* has ended in an AttributeError without showing any of them
C23_TailRaises ==
  /\ last.op = "CommandTail"
  /\ last.count > 0
  /\ last.error = "AttributeError"
  /\ last.inner = "none"
  /\ last.result = <<>>
  /\ FreshRead.error = "none"
  /\ FreshRead.data # <<>>

(***************************************************************************)
(* Claims about failing calls.                                             *)
(***************************************************************************)
\* C24: a read() that fails leaves data, loaded and the dialect as they were before
\* the call
C24_FailedReadFrame ==
  [][(last'.op = "read" /\ last'.error # "none") =>
       /\ data' = data
       /\ loaded' = loaded
       /\ dialect' = dialect]_vars

\* C24 diverges: read() has failed on a row without an integer in front, on an object
\* that held an entry to append; data holds the rows of the file as text instead, a
\* dialect is set and the object is in loaded mode, so that the next write() replaces
\* the file
C24_FailedReadLoaded ==
  /\ last.op = "read"
  /\ last.error = "ValueError"
  /\ last.pending > 0
  /\ loaded
  /\ write_mode = "w"
  /\ dialect # None
  /\ data = reader(files[file_name], dialect)
  /\ \E i \in 1..Len(data) : ~data[i].fields[1].isint

\* C25: a write() that fails leaves the file with the contents it had before the
\* call and does not clear data
C25_FailedWriteFrame ==
  [][(last'.op = "write" /\ last'.error # "none") =>
       /\ files' = files
       /\ data' = data]_vars

\* C25 diverges: in loaded mode write() has failed on the first element of data,
\* which is no sequence, and the file that had been read is empty
C25_Truncated ==
  /\ last.op = "write"
  /\ last.error = "csv.Error: row"
  /\ loaded
  /\ data # <<>>
  /\ ~data[1].iterable
  /\ files[file_name] = <<>>

(***************************************************************************)
(* Claims about sequences of append, read and write.                       *)
(***************************************************************************)
\* entries are appended, read and written, starting from files that do not hold the
\* entry (0, "a,b")
InitAppend ==
  /\ Init
  /\ files[file_name] \in {NoFile, <<>>, <<"0", TAB, "a", LF>>, <<"x", TAB, "a", LF>>}

NextAppend ==
  \/ read
  \/ write
  \/ \E activity \in Activities, timestamp \in Timestamps : append(activity, timestamp, FALSE)

SpecAppend == InitAppend /\ [][NextAppend]_vars

\* the entry that only append can bring in
Marked == Entry(0, <<"a", COMMA, "b">>)

\* the file content holds the entry as one of its rows, read in dialect d or in the
\* default dialect when d is none
Holds(content, d, entry) ==
  LET Among(rows) ==
        \E i \in 1..Len(rows) : RowError(rows[i]) = "none" /\ IntRow(rows[i]) = entry
  IN content # NoFile /\ Among(reader(content, IF d = None THEN Dialect ELSE d))

\* the entry has been appended and is not in the file yet
Pending(entry) ==
  /\ \E i \in 1..Len(data) : data[i] = entry
  /\ ~Holds(files[file_name], dialect, entry)

\* C26: an entry that was passed to append stays in data over every call of append,
\* read and write until a write() succeeds, and is in the file after that write()
C26_NoEntryDropped ==
  [][Pending(Marked) =>
       IF WriteDone' THEN Holds(files'[file_name], dialect', Marked)
       ELSE \E i \in 1..Len(data') : data'[i] = Marked]_vars

\* C26 with read() set apart: over every call of append and write the entry stays in
\* data until a write() succeeds, and is in the file after that write()
C26_NoEntryDroppedUnlessRead ==
  [][(Pending(Marked) /\ last'.op # "read") =>
       IF WriteDone' THEN Holds(files'[file_name], dialect', Marked)
       ELSE \E i \in 1..Len(data') : data'[i] = Marked]_vars

\* two entries were appended and written, and the file holds the marked one, which it
\* did not hold at first
C26_Written ==
  /\ last.op = "write" /\ last.error = "none" /\ last.pending = 2
  /\ Holds(files[file_name], dialect, Marked)

(***************************************************************************)
(* Claims about load() and the tracking file.                              *)
(***************************************************************************)
\* C27: load() leaves loaded, the dialect and the files as they are; a successful
\* write() right after a successful load() appends the loaded rows to the tracking
\* file and clears data when the object was never read, and makes the tracking file
\* hold exactly the loaded rows when it was
C27_LoadOnlyData ==
  [][/\ last'.op = "load" =>
          /\ loaded' = loaded
          /\ dialect' = dialect
          /\ files' = files
     /\ (last.op = "load" /\ last.error = "none" /\ last'.op = "write" /\ WriteDone') =>
          IF ~loaded
            THEN /\ files'[file_name]
                      = (IF exists(file_name) THEN files[file_name] ELSE <<>>)
                        \o RowLines(data, dialect')
                 /\ data' = <<>>
            ELSE /\ files'[file_name] = RowLines(data, dialect')
                 /\ data' = data]_vars

\* load() has brought an entry into an object that was never read and has no
\* dialect, although load() has detected the dialect of the file it loaded
C27_LoadedAppendMode ==
  /\ last.op = "load" /\ last.error = "none"
  /\ ~loaded
  /\ dialect = None
  /\ last.pending = 0
  /\ data = <<Entry(0, <<"a">>)>>
  /\ exists(file_name)

(***************************************************************************)
(* tt.py: TimeTrackingFile.insert on the file under file_name.             *)
(***************************************************************************)
\* f.readlines() of a text-mode file: the lines with their "\n"; the last line has
\* none when the text does not end in one
RECURSIVE readlines(_)
readlines(s) ==
  IF s = <<>> THEN <<>>
  ELSE IF ~Contains(s, LF) THEN <<s>>
  ELSE <<SubSeq(s, 1, Find(s, LF))>> \o readlines(SubSeq(s, Find(s, LF) + 1, Len(s)))

\* line.split('\t')
RECURSIVE split_tab(_)
split_tab(s) ==
  IF ~Contains(s, TAB) THEN <<s>>
  ELSE <<SubSeq(s, 1, Find(s, TAB) - 1)>> \o split_tab(SubSeq(s, Find(s, TAB) + 1, Len(s)))

\* (int(i[0]), i[1]) raises for this line: ValueError, IndexError, or "none"
TupleError(line) ==
  IF ~IntParseable(split_tab(line)[1]) THEN "ValueError"
  ELSE IF Len(split_tab(line)) < 2 THEN "IndexError"
  ELSE "none"

\* (int(i[0]), i[1]) for i = line.split('\t')
LineTuple(line) == <<int(split_tab(line)[1]), split_tab(line)[2]>>

RECURSIVE FirstTupleError(_)
FirstTupleError(lines) ==
  IF lines = <<>> THEN "none"
  ELSE IF TupleError(Head(lines)) # "none" THEN TupleError(Head(lines))
  ELSE FirstTupleError(Tail(lines))

\* a < b for two str, by code points
StrLess(a, b) ==
  LET differ == {i \in 1..Min(Len(a), Len(b)) : a[i] # b[i]}
      first == CHOOSE i \in differ : \A h \in differ : i <= h
  IN IF differ = {} THEN Len(a) < Len(b) ELSE CharCode(a[first]) < CharCode(b[first])

\* a < b for two tuples (int, str)
TupleLess(a, b) == a[1] < b[1] \/ (a[1] = b[1] /\ StrLess(a[2], b[2]))

\* sorted(content)
RECURSIVE sorted(_)
sorted(content) ==
  LET Put(x, rest) ==
        LET smaller == {i \in 1..Len(rest) : TupleLess(rest[i], x)}
        IN SubSeq(rest, 1, Cardinality(smaller)) \o <<x>>
           \o SubSeq(rest, Cardinality(smaller) + 1, Len(rest))
  IN IF content = <<>> THEN <<>> ELSE Put(Head(content), sorted(Tail(content)))

\* '{}\t{}'.format(i[0], i[1])
TupleText(tuple) == str(tuple[1]) \o <<TAB>> \o tuple[2]

\* ''.join of the texts of the tuples
RECURSIVE JoinTuples(_)
JoinTuples(content) ==
  IF content = <<>> THEN <<>> ELSE TupleText(Head(content)) \o JoinTuples(Tail(content))

\* content[start:stop] of Python for indexes counted from 0, start possibly negative
Slice(content, start, stop) ==
  LET from == IF start < 0 THEN (IF Len(content) + start < 0 THEN 0 ELSE Len(content) + start)
              ELSE start
      to == IF stop > Len(content) THEN Len(content) ELSE stop
  IN SubSeq(content, from + 1, to)

\* the outcome of insert(activity, timestamp) when the file holds text: the error
\* raised, the text written, and the tuples around the new one that the returned
\* text is formatted from
insert_outcome(text, activity, timestamp) ==
  LET Sorted(content) ==
        LET content_i == (CHOOSE i \in 1..Len(content) :
                            /\ content[i][1] = timestamp
                            /\ \A h \in 1..(i - 1) : content[h][1] # timestamp) - 1
        IN [error |-> "none", content |-> TextWrite(JoinTuples(content)),
            content_trim |-> JoinTuples(Slice(content, content_i - 2, content_i + 2))]
      Listed(lines) ==
        IF FirstTupleError(lines) # "none"
        THEN [error |-> FirstTupleError(lines), content |-> text, content_trim |-> <<>>]
        ELSE Sorted(sorted([i \in 1..Len(lines) |-> LineTuple(lines[i])]
                           \o << <<timestamp, activity>> >>))
  IN IF text = NoFile
       THEN [error |-> "FileNotFoundError", content |-> text, content_trim |-> <<>>]
       ELSE Listed(readlines(TextRead(text)))

\* characters of the file insert leaves, at most
MaxInsertLen == 11

insert(activity, timestamp) ==
  \E out \in {insert_outcome(files[file_name], activity, timestamp)} :
     /\ Len(out.content) <= MaxInsertLen
     /\ files' = [files EXCEPT ![file_name] = out.content]
     /\ last' = [Call("insert") EXCEPT !.activity = activity, !.timestamp = timestamp,
                                       !.error = out.error, !.result = out.content_trim]
     /\ UNCHANGED <<data, dialect, loaded, time, timestamp_default, scope>>

\* the inputs of the model: files of well-formed lines, a missing and an empty file,
\* activities, and timestamps before, between, at and after those of the files
InsertFiles ==
  { NoFile,
    <<>>,
    <<"3", TAB, "b", LF>>,
    <<"1", TAB, "a", LF, "3", TAB, "b", LF>> }
InsertActivities == {<<"a">>, <<"x">>}
InsertTimestamps == {0, 2, 3, 5}

InitInsert ==
  /\ files \in [Paths -> InsertFiles]
  /\ files[export_name] = NoFile
  /\ dialect = None
  /\ data = Constructed(dialect).data
  /\ loaded = Constructed(dialect).loaded
  /\ time = StartTime
  /\ timestamp_default = time
  /\ scope = "outside"
  /\ last = [Call("__init__") EXCEPT !.pending = 0]

NextInsert ==
  \E activity \in InsertActivities, timestamp \in InsertTimestamps :
     insert(activity, timestamp)

SpecInsert == InitInsert /\ [][NextInsert]_vars

(***************************************************************************)
(* Claims about insert.                                                    *)
(***************************************************************************)
\* the line is a timestamp of digits, a tab, an activity without tab, and "\n"
WellFormedLine(line) ==
  /\ Len(split_tab(line)) = 2
  /\ split_tab(line)[1] # <<>>
  /\ \A i \in 1..Len(split_tab(line)[1]) : IsDigit(split_tab(line)[1][i])
  /\ Len(split_tab(line)[2]) >= 2
  /\ Find(split_tab(line)[2], LF) = Len(split_tab(line)[2])

WellFormed(text) ==
  text # NoFile /\ \A i \in 1..Len(readlines(text)) : WellFormedLine(readlines(text)[i])

\* the rows of a file of well-formed lines: timestamp and activity
RowsOf(text) ==
  [i \in 1..Len(readlines(text)) |->
     <<int(split_tab(readlines(text)[i])[1]),
       SubSeq(split_tab(readlines(text)[i])[2], 1, Len(split_tab(readlines(text)[i])[2]) - 1)>>]

\* the number of elements of rows equal to row
Times(rows, row) == Cardinality({i \in 1..Len(rows) : rows[i] = row})

\* C28: insert(activity, timestamp) on a file of well-formed lines leaves a file of
\* well-formed lines, one more than before, that holds the previous rows and the
\* new row, ordered by timestamp
C28_InsertKeepsFile ==
  [][(last'.op = "insert" /\ WellFormed(files[file_name])) =>
       /\ last'.error = "none"
       /\ WellFormed(files'[file_name])
       /\ Len(readlines(files'[file_name])) = Len(readlines(files[file_name])) + 1
       /\ \A i \in 1..Len(readlines(files'[file_name])) :
            Times(RowsOf(files'[file_name]), RowsOf(files'[file_name])[i])
              = Times(RowsOf(files[file_name]) \o << <<last'.timestamp, last'.activity>> >>,
                      RowsOf(files'[file_name])[i])
       /\ \A i \in 1..(Len(readlines(files'[file_name])) - 1) :
            RowsOf(files'[file_name])[i][1] <= RowsOf(files'[file_name])[i + 1][1]]_vars

\* C28 diverges: insert has put the row (2, "x") between the rows of the file
\* without a newline, and the file holds two lines, the first of them with the new
\* row and the old one run together
C28_LinesRunTogether ==
  /\ last.op = "insert" /\ last.error = "none"
  /\ last.timestamp = 2 /\ last.activity = <<"x">>
  /\ files[file_name] = <<"1", TAB, "a", LF, "2", TAB, "x", "3", TAB, "b", LF>>

====
